---- MODULE Spec2Model ----
(***************************************************************************)
(* ResumeAlign backend (src/backend/app.py, models.py, database.py).       *)
(*                                                                         *)
(* The model follows one request at a time through the handlers of        *)
(* app.py, one action per suspension point or call, together with the     *)
(* single-step handlers GET/DELETE/list on the optimizations collection.  *)
(*                                                                         *)
(* Representation of values:                                               *)
(*   - a page / LLM text is a record [kind, len]: where it came from and   *)
(*     its number of characters (the code only looks at len() and slices); *)
(*   - a resume is a sequence of one-character strings, so that the        *)
(*     whitespace normalisation of parse_text_resume is computed;          *)
(*   - the optimizer LLM's reply is a sequence of tokens ("{", "}",        *)
(*     prose, JSON members), so that the regular expression and json.loads *)
(*     are computed;                                                       *)
(*   - match_score is kept in tenths (5 stands for 0.5).                   *)
(***************************************************************************)
EXTENDS Integers, Sequences, FiniteSets, TLC

VARIABLES
    pc,             \* position of the request in flight
    endpoint,       \* "none" | "scrape" | "optimize" | "optimize_json"
    req,            \* the request's inputs
    site,           \* branch of scrape_job_posting: "none" | "static" (l.203) | "main" (l.211) | "fallback" (l.226)
    exc,            \* exception e bound by `except Exception as e` at l.222
    text,           \* local `text` of scrape_job_posting
    raw_text,       \* local `raw_text`
    cleansed_text,  \* local `cleansed_text`
    playwright,     \* async_playwright() context: "stopped" | "running"
    open_browsers,  \* browsers launched during this call and not closed by browser.close()
    pw_result,      \* pending outcome of scrape_with_playwright's try body
    static_result,  \* observation: what the static fetch of this call gave
    pw_calls,       \* observation: invocations of scrape_with_playwright in this call
    pw_returns,     \* observation: how each of them ended (raised, or the length returned)
    cleanser_calls, \* observation: invocations of cleanse_job_posting_with_llm in this call
    resume_content, \* local `resume_content` of the handler
    optimization_result, \* local `optimization_result` of the handler
    llm_outcome,    \* observation: how the optimizer LLM behaved for this request
    response,       \* response of the last /optimize or /optimize-json request
    store,          \* optimizations collection: ObjectId -> document
    next_oid,       \* next ObjectId the store assigns
    lastOp          \* the last GET/DELETE/list request and its response

vars == <<pc, endpoint, req, site, exc, text, raw_text, cleansed_text, playwright,
          open_browsers, pw_result, static_result, pw_calls, pw_returns,
          cleanser_calls,
          resume_content, optimization_result, llm_outcome, response, store,
          next_oid, lastOp>>

scrapeVars == <<site, exc, text, raw_text, cleansed_text, playwright, open_browsers,
                pw_result, static_result, pw_calls, pw_returns, cleanser_calls>>

handlerVars == <<resume_content, optimization_result, llm_outcome, response>>

storeVars == <<store, next_oid, lastOp>>

----------------------------------------------------------------------------
(* Bounds of the model *)

\* number of documents the store ever assigns an id to (specification Spec)
MaxRecords == 2

\* number of optimize requests followed (specification SpecRequest)
MaxRequests == 1

(* Program constants *)

\* `if len(text) > 500`
StaticMinChars == 500

\* `if len(text) > 100`
RenderedMinChars == 100

\* `raw_text[:5000]`
CleanseFallbackChars == 5000

\* len("Unable to extract job posting content. The page might be protected or require manual access.")
ExtractErrorLen == 92

\* len("Unable to scrape job posting. Error: ")
ScrapeErrorPrefixLen == 37

\* "match_score": 0.5, in tenths
FallbackScoreTenths == 5

----------------------------------------------------------------------------
(* Texts *)

Min(a, b) == IF a <= b THEN a ELSE b

NoText == [kind |-> "none", len |-> 0]

\* Python slice s[:n]
Truncate(t, n) == [kind |-> t.kind, len |-> Min(t.len, n)]

NoExc == [kind |-> "none", len |-> 0]

\* error_msg of l.219
ExtractErrorMsg == [kind |-> "extract_error", len |-> ExtractErrorLen]

\* error_msg of l.234: f"Unable to scrape job posting. Error: {str(e)}"
ScrapeErrorMsg(e) ==
    [kind |-> IF e.kind = "static" THEN "scrape_error_static"
              ELSE IF e.kind = "render" THEN "scrape_error_render"
              ELSE "scrape_error_cleanse",
     len |-> ScrapeErrorPrefixLen + e.len]

----------------------------------------------------------------------------
(* Behaviours of the collaborators of scrape_job_posting *)

\* client.get / raise_for_status / BeautifulSoup text: an exception, or the
\* normalised text with its length
StaticOutcomes ==
    {[kind |-> "error", len |-> 20]}
    \cup {[kind |-> "text", len |-> n] : n \in {0, StaticMinChars, StaticMinChars + 1, 6000}}

\* chromium.launch, new_page: succeed or raise
StepOutcomes == {[kind |-> "ok", len |-> 0], [kind |-> "error", len |-> 30]}

\* page.goto ... h.handle(content): an exception, or the rendered text
RenderOutcomes ==
    {[kind |-> "error", len |-> 30]}
    \cup {[kind |-> "text", len |-> n] : n \in {0, RenderedMinChars, RenderedMinChars + 1, 7000}}

\* Bedrock for the cleanser: client construction fails, invoke_model raises,
\* or a reply text of some length (possibly empty)
CleanserOutcomes ==
    {[kind |-> "client_error", len |-> 0], [kind |-> "invoke_error", len |-> 0]}
    \cup {[kind |-> "reply", len |-> n] : n \in {0, 40}}

----------------------------------------------------------------------------
(* cleanse_job_posting_with_llm: the returned text, or an escaping exception *)

\* the cleanser without the `except Exception` of l.162: an invoke_model
\* error escapes to the caller
cleanse_without_except(raw, o) ==
    IF o.kind = "client_error"
    THEN [raised |-> FALSE, value |-> Truncate(raw, CleanseFallbackChars)]
    ELSE IF o.kind = "invoke_error"
    THEN [raised |-> TRUE, value |-> NoText]
    ELSE [raised |-> FALSE, value |-> [kind |-> "cleaned", len |-> o.len]]

cleanse_job_posting_with_llm(raw, o) ==
    IF o.kind = "client_error"
    THEN [raised |-> FALSE, value |-> Truncate(raw, CleanseFallbackChars)]
    ELSE IF o.kind = "invoke_error"
    THEN [raised |-> FALSE, value |-> Truncate(raw, CleanseFallbackChars)]
    ELSE [raised |-> FALSE, value |-> [kind |-> "cleaned", len |-> o.len]]

----------------------------------------------------------------------------
(* scrape_job_posting and scrape_with_playwright, step by step *)

\* how an invocation of scrape_with_playwright ended: an exception left it,
\* or it returned a text
AttemptRaised == [raised |-> TRUE, len |-> 0]

AttemptReturned(t) == [raised |-> FALSE, len |-> t.len]

\* control is inside scrape_with_playwright, after chromium.launch
InAttempt == pc \in {"pw_new_page", "pw_render", "pw_close"}

\* `return a, b` of scrape_job_posting
ScrapeReturns(cleansed, raw) ==
    /\ cleansed_text' = cleansed
    /\ raw_text' = raw
    /\ pc' = "scrape_return"
    /\ UNCHANGED <<site, exc>>

\* an exception e reaches `except Exception as e` (l.222): the fallback
\* attempt of l.226 starts
EnterFallback(e) ==
    /\ exc' = e
    /\ site' = "fallback"
    /\ pc' = "pw_launch"
    /\ UNCHANGED <<raw_text, cleansed_text>>

\* an exception leaves a call made at the current site
Raised(e) ==
    IF site = "fallback"
    THEN \* caught at l.231, falls to l.234
         ScrapeReturns(ScrapeErrorMsg(exc), ScrapeErrorMsg(exc))
    ELSE EnterFallback(e)

\* scrape_with_playwright returned t at the current site (l.211-220, l.226-235)
Rendered(t) ==
    IF t.len > RenderedMinChars
    THEN /\ raw_text' = t
         /\ pc' = "cleanse"
         /\ UNCHANGED <<site, exc, cleansed_text>>
    ELSE IF site = "main"
         THEN ScrapeReturns(ExtractErrorMsg, ExtractErrorMsg)
         ELSE ScrapeReturns(ScrapeErrorMsg(exc), ScrapeErrorMsg(exc))

\* The locals of scrape_job_posting before its first statement, and the
\* observations of the call reset
ResetScrapeLocals ==
    /\ site' = "none"
    /\ exc' = NoExc
    /\ text' = NoText
    /\ raw_text' = NoText
    /\ cleansed_text' = NoText
    /\ playwright' = "stopped"
    /\ open_browsers' = 0
    /\ pw_result' = [raised |-> FALSE, exc |-> NoExc, text |-> NoText]
    /\ static_result' = "none"
    /\ pw_calls' = 0
    /\ pw_returns' = <<>>
    /\ cleanser_calls' = 0

\* scrape_job_posting is called (l.171-183)
BeginScrape ==
    /\ pc' = "static"
    /\ ResetScrapeLocals

\* l.185-210: the static fetch and the threshold
StaticFetch(env) ==
    /\ pc = "static"
    /\ \E o \in env.static :
        IF o.kind = "error"
        THEN /\ static_result' = "error"
             /\ text' = NoText
             /\ EnterFallback([kind |-> "static", len |-> o.len])
        ELSE /\ text' = [kind |-> "static", len |-> o.len]
             /\ IF o.len > StaticMinChars
                THEN /\ static_result' = "long"
                     /\ raw_text' = [kind |-> "static", len |-> o.len]
                     /\ site' = "static"
                     /\ pc' = "cleanse"
                     /\ UNCHANGED <<exc, cleansed_text>>
                ELSE /\ static_result' = "short"
                     /\ site' = "main"
                     /\ pc' = "pw_launch"
                     /\ UNCHANGED <<exc, raw_text, cleansed_text>>
    /\ UNCHANGED <<endpoint, req, playwright, open_browsers, pw_result, pw_calls,
                   pw_returns, cleanser_calls>>
    /\ UNCHANGED handlerVars
    /\ UNCHANGED storeVars

\* l.58-59: enter async_playwright(), launch chromium
PwLaunch(env) ==
    /\ pc = "pw_launch"
    /\ pw_calls' = pw_calls + 1
    /\ \E o \in env.step :
        IF o.kind = "error"
        THEN /\ playwright' = "stopped"
             /\ open_browsers' = open_browsers
             /\ pw_returns' = Append(pw_returns, AttemptRaised)
             /\ Raised([kind |-> "render", len |-> o.len])
        ELSE /\ playwright' = "running"
             /\ open_browsers' = open_browsers + 1
             /\ pc' = "pw_new_page"
             /\ UNCHANGED <<site, exc, raw_text, cleansed_text, pw_returns>>
    /\ UNCHANGED <<endpoint, req, text, pw_result, static_result, cleanser_calls>>
    /\ UNCHANGED handlerVars
    /\ UNCHANGED storeVars

\* l.60: browser.new_page(), before the try of l.62
PwNewPage(env) ==
    /\ pc = "pw_new_page"
    /\ \E o \in env.step :
        IF o.kind = "error"
        THEN \* leaves `async with` without reaching the try/finally
             /\ playwright' = "stopped"
             /\ pw_returns' = Append(pw_returns, AttemptRaised)
             /\ Raised([kind |-> "render", len |-> o.len])
        ELSE /\ playwright' = playwright
             /\ pc' = "pw_render"
             /\ UNCHANGED <<site, exc, raw_text, cleansed_text, pw_returns>>
    /\ UNCHANGED <<endpoint, req, text, open_browsers, pw_result, static_result,
                   pw_calls, cleanser_calls>>
    /\ UNCHANGED handlerVars
    /\ UNCHANGED storeVars

\* l.62-85: the try body (goto, settle, content, html2text, join)
PwRender(env) ==
    /\ pc = "pw_render"
    /\ \E o \in env.render :
        pw_result' =
            IF o.kind = "error"
            THEN [raised |-> TRUE, exc |-> [kind |-> "render", len |-> o.len],
                  text |-> NoText]
            ELSE [raised |-> FALSE, exc |-> NoExc,
                  text |-> [kind |-> "rendered", len |-> o.len]]
    /\ pc' = "pw_close"
    /\ UNCHANGED <<endpoint, req, site, exc, text, raw_text, cleansed_text, playwright,
                   open_browsers, static_result, pw_calls, pw_returns, cleanser_calls>>
    /\ UNCHANGED handlerVars
    /\ UNCHANGED storeVars

\* l.87-88 and the end of `async with`: close the browser, then return or re-raise
PwClose ==
    /\ pc = "pw_close"
    /\ open_browsers' = open_browsers - 1
    /\ playwright' = "stopped"
    /\ IF pw_result.raised
       THEN /\ Raised(pw_result.exc)
            /\ text' = text
            /\ pw_returns' = Append(pw_returns, AttemptRaised)
       ELSE /\ Rendered(pw_result.text)
            /\ text' = pw_result.text
            /\ pw_returns' = Append(pw_returns, AttemptReturned(pw_result.text))
    /\ UNCHANGED <<endpoint, req, pw_result, static_result, pw_calls, cleanser_calls>>
    /\ UNCHANGED handlerVars
    /\ UNCHANGED storeVars

\* l.206-207, l.216-217, l.229-230: cleanse and return
Cleanse(env) ==
    /\ pc = "cleanse"
    /\ cleanser_calls' = cleanser_calls + 1
    /\ \E o \in env.cleanser :
        LET r == cleanse_job_posting_with_llm(raw_text, o) IN
        IF r.raised
        THEN Raised([kind |-> "cleanse", len |-> 10])
        ELSE ScrapeReturns(r.value, raw_text)
    /\ UNCHANGED <<endpoint, req, text, playwright, open_browsers, pw_result,
                   static_result, pw_calls, pw_returns>>
    /\ UNCHANGED handlerVars
    /\ UNCHANGED storeVars

----------------------------------------------------------------------------
(* Resume Parser: parse_text_resume, parse_pdf_resume *)

\* characters matched by \s in the modelled alphabet
Whitespace == {" ", "\n"}

RECURSIVE LStrip(_)
LStrip(s) == IF s # <<>> /\ Head(s) \in Whitespace THEN LStrip(Tail(s)) ELSE s

RECURSIVE RStrip(_)
RStrip(s) ==
    IF s # <<>> /\ s[Len(s)] \in Whitespace THEN RStrip(SubSeq(s, 1, Len(s) - 1)) ELSE s

\* str.strip()
Strip(s) == RStrip(LStrip(s))

\* re.sub(r'\s+', ' ', content)
RECURSIVE CollapseWhitespace(_)
CollapseWhitespace(s) ==
    IF s = <<>> THEN <<>>
    ELSE IF Head(s) \in Whitespace
         THEN <<" ">> \o CollapseWhitespace(LStrip(Tail(s)))
         ELSE <<Head(s)>> \o CollapseWhitespace(Tail(s))

parse_text_resume(content) == Strip(CollapseWhitespace(content))

\* text += page.extract_text() + "\n" over the pages
RECURSIVE JoinPages(_)
JoinPages(pages) ==
    IF pages = <<>> THEN <<>> ELSE Head(pages) \o <<"\n">> \o JoinPages(Tail(pages))

\* parse_pdf_resume: the text, or HTTPException(400) when PyPDF2 fails
parse_pdf_resume(file) ==
    IF file.format = "pdf"
    THEN [status |-> 200, value |-> Strip(JoinPages(file.pages))]
    ELSE [status |-> 400, value |-> <<>>]

\* resume_file.filename.lower().endswith('.pdf')
HasPdfName(file) == file.filename \in {"cv.pdf", "CV.PDF"}

\* l.392-399 of optimize_resume: the resume text, or the status of the
\* exception that ends the request (400 from parse_pdf_resume, 500 from an
\* uncaught UnicodeDecodeError)
ParseUpload(r) ==
    IF r.resume_file.format # "none"
    THEN IF HasPdfName(r.resume_file)
         THEN parse_pdf_resume(r.resume_file)
         ELSE IF r.resume_file.format = "utf8"
              THEN [status |-> 200, value |-> parse_text_resume(r.resume_file.pages[1])]
              ELSE [status |-> 500, value |-> <<>>]
    ELSE [status |-> 200, value |-> parse_text_resume(r.resume_text.text)]

\* Python truthiness of an Optional[str]
Truthy(t) == t.present /\ t.text # <<>>

----------------------------------------------------------------------------
(* Inputs of the handlers *)

NoFile == [filename |-> "", format |-> "none", pages |-> <<>>]

NoResumeText == [present |-> FALSE, text |-> <<>>]

ResumeTexts ==
    {NoResumeText} \cup
    {[present |-> TRUE, text |-> t] :
        t \in {<<>>, <<" ">>, <<"a">>, <<" ", "a", " ", "\n", "b">>}}

ResumeFiles ==
    {NoFile,
     [filename |-> "CV.PDF", format |-> "pdf", pages |-> << <<"a", " ">>, <<"b">> >>],
     [filename |-> "cv.pdf", format |-> "binary", pages |-> <<>>],
     [filename |-> "cv.txt", format |-> "utf8", pages |-> << <<"a", " ", " ", "b">> >>],
     [filename |-> "cv.txt", format |-> "binary", pages |-> <<>>]}

JobUrl == "https://jobs.example/1"

NoRequest == [job_url |-> "", resume_file |-> NoFile, resume_text |-> NoResumeText]

----------------------------------------------------------------------------
(* optimize_resume_with_llm *)

\* JSON members the modelled replies are made of, with the key each sets
MemberTokens == {"R", "R0", "S", "M8", "M15", "Mneg", "Mstr"}

KeyOf(tok) ==
    IF tok \in {"R", "R0"} THEN "optimized_resume"
    ELSE IF tok = "S" THEN "suggestions"
    ELSE "match_score"

\* the text the LLM writes as the rewritten resume
RewrittenResume == <<"a", "+">>

LlmSuggestions == <<"Emphasised the matching skills">>

NotANumber == [num |-> FALSE, tenths |-> 0]

\* the value of a "match_score" member
ScoreOf(tok) ==
    IF tok = "M8" THEN [num |-> TRUE, tenths |-> 8]
    ELSE IF tok = "M15" THEN [num |-> TRUE, tenths |-> 15]
    ELSE IF tok = "Mneg" THEN [num |-> TRUE, tenths |-> -2]
    ELSE NotANumber

\* index of the last member with key k (0 when there is none): in a JSON
\* object with a repeated key json.loads keeps the last
LastWithKey(members, k) ==
    LET I == {i \in 1..Len(members) : KeyOf(members[i]) = k}
    IN IF I = {} THEN 0 ELSE CHOOSE i \in I : \A j \in I : j <= i

\* the dict json.loads builds from the members of an object
DictOf(members) ==
    LET r == LastWithKey(members, "optimized_resume")
        g == LastWithKey(members, "suggestions")
        m == LastWithKey(members, "match_score")
    IN [type |-> "dict",
        keys |-> {KeyOf(members[i]) : i \in 1..Len(members)},
        optimized_resume |->
            IF r # 0 /\ members[r] = "R" THEN RewrittenResume ELSE <<>>,
        suggestions |-> IF g # 0 THEN LlmSuggestions ELSE <<>>,
        match_score |-> IF m # 0 THEN ScoreOf(members[m]) ELSE NotANumber]

NoResult ==
    [type |-> "none", keys |-> {}, optimized_resume |-> <<>>, suggestions |-> <<>>,
     match_score |-> NotANumber]

\* json.loads on a token sequence: an object of members, the array "[]",
\* or JSONDecodeError
json_loads(toks) ==
    IF toks = <<"[]">>
    THEN [ok |-> TRUE, value |-> [NoResult EXCEPT !.type = "list"]]
    ELSE IF /\ Len(toks) >= 2
            /\ toks[1] = "{"
            /\ toks[Len(toks)] = "}"
            /\ \A i \in 2..(Len(toks) - 1) : toks[i] \in MemberTokens
         THEN [ok |-> TRUE, value |-> DictOf(SubSeq(toks, 2, Len(toks) - 1))]
         ELSE [ok |-> FALSE, value |-> NoResult]

\* re.search(r'\{[\s\S]*\}', s): leftmost "{", then greedily up to the last "}"
re_search_braces(toks) ==
    LET Opens == {i \in 1..Len(toks) : toks[i] = "{"}
        first == IF Opens = {} THEN 0 ELSE CHOOSE i \in Opens : \A j \in Opens : i <= j
        Closes == {i \in 1..Len(toks) : toks[i] = "}" /\ i > first}
        last == IF Closes = {} THEN 0 ELSE CHOOSE i \in Closes : \A j \in Closes : j <= i
    IN IF first # 0 /\ last # 0
       THEN [found |-> TRUE, group |-> SubSeq(toks, first, last)]
       ELSE [found |-> FALSE, group |-> <<>>]

Complete(resume, suggestions) ==
    [type |-> "dict",
     keys |-> {"optimized_resume", "suggestions", "match_score"},
     optimized_resume |-> resume,
     suggestions |-> suggestions,
     match_score |-> [num |-> TRUE, tenths |-> FallbackScoreTenths]]

\* l.270-279
NoCredentialsFallback(resume) ==
    Complete(resume, <<"Add AWS credentials to .env file for AI-powered optimization",
                       "Review job requirements and align your skills",
                       "Highlight relevant experience",
                       "Use keywords from the job posting">>)

\* l.340-349
JsonErrorFallback(resume) ==
    Complete(resume, <<"AI response parsing error",
                       "Please review job requirements manually",
                       "Consider adding keywords from the job posting",
                       "JSON Error: <detail>">>)

\* an API-error fallback that loses the resume
ApiErrorFallbackEmpty(resume) ==
    Complete(<<>>, <<"Could not connect to AWS Bedrock service",
                     "Please check AWS credentials and permissions",
                     "Ensure you have access to Claude model in Bedrock",
                     "Error: <detail>">>)

\* l.352-361
ApiErrorFallback(resume) ==
    Complete(resume, <<"Could not connect to AWS Bedrock service",
                       "Please check AWS credentials and permissions",
                       "Ensure you have access to Claude model in Bedrock",
                       "Error: <detail>">>)

\* l.327-336: what the function returns for a reply text
ParseReply(toks, resume) ==
    LET m == re_search_braces(toks)
        parsed == IF m.found THEN json_loads(m.group) ELSE json_loads(toks)
    IN IF parsed.ok THEN parsed.value ELSE JsonErrorFallback(resume)

optimize_resume_with_llm(job_posting, resume, o) ==
    IF o.kind = "client_error" THEN NoCredentialsFallback(resume)
    ELSE IF o.kind = "invoke_error" THEN ApiErrorFallback(resume)
    ELSE ParseReply(o.text, resume)

\* Bedrock for the optimizer: client construction fails, invoke_model raises,
\* or a reply text
OptimizerReplies ==
    {<<"{", "R", "S", "M8", "}">>,
     <<"w", "{", "R", "S", "M8", "}", "w">>,
     <<"{", "R", "S", "M15", "}">>,
     <<"{", "R", "S", "Mneg", "}">>,
     <<"{", "R", "S", "Mstr", "}">>,
     <<"{", "R0", "S", "M8", "}">>,
     <<"{", "R", "S", "}">>,
     <<"{", "}">>,
     <<"[]">>,
     <<"w">>,
     <<>>,
     <<"{", "R", "S", "M8", "}", "w", "{", "w", "}">>}

OptimizerOutcomes ==
    {[kind |-> "client_error", text |-> <<>>], [kind |-> "invoke_error", text |-> <<>>]}
    \cup {[kind |-> "reply", text |-> t] : t \in OptimizerReplies}

NoOutcome == [kind |-> "none", text |-> <<>>]

----------------------------------------------------------------------------
(* Identifiers: bson.ObjectId and its 24-hex-digit string form *)

\* an id string is [kind, n]: the 24 hex digits of ObjectId n, or some other
\* string (wrong length or charset)
NoId == [kind |-> "none", n |-> 0]

\* str(result.inserted_id)
StrOfObjectId(oid) == [kind |-> "hex24", n |-> oid]

\* ObjectId.is_valid(optimization_id)
ObjectIdIsValid(idstr) == idstr.kind = "hex24"

\* ObjectId(optimization_id)
ObjectIdOf(idstr) == idstr.n

\* the path parameters the model tries
IdStrings ==
    {[kind |-> "other", n |-> 0]} \cup {StrOfObjectId(n) : n \in 1..MaxRecords}

----------------------------------------------------------------------------
(* ResumeOptimization documents and the responses built from them *)

\* ResumeOptimization(...) of l.405-414 / l.449-458 on the values read from
\* optimization_result: status 500 stands for the uncaught TypeError,
\* KeyError or pydantic ValidationError
BuildDocument(url, cleansed, raw, resume, result, now) ==
    IF \/ result.type # "dict"
       \/ ~({"optimized_resume", "suggestions", "match_score"} \subseteq result.keys)
       \/ ~result.match_score.num
    THEN [status |-> 500]
    ELSE [status |-> 200,
          doc |-> [user_email |-> "anonymous@example.com",
                   job_url |-> url,
                   job_posting_content |-> cleansed,
                   job_posting_raw |-> raw,
                   original_resume |-> resume,
                   optimized_resume |-> result.optimized_resume,
                   suggestions |-> result.suggestions,
                   match_score |-> result.match_score.tenths,
                   created_at |-> now]]

NoDoc ==
    [user_email |-> "", job_url |-> "", job_posting_content |-> NoText,
     job_posting_raw |-> NoText, original_resume |-> <<>>, optimized_resume |-> <<>>,
     suggestions |-> <<>>, match_score |-> 0, created_at |-> 0]

\* ResumeResponse of l.421-428 / l.465-472, or an error response
OkResponse(oid, doc) ==
    [status |-> 200,
     id |-> StrOfObjectId(oid),
     optimized_resume |-> doc.optimized_resume,
     suggestions |-> doc.suggestions,
     match_score |-> doc.match_score,
     job_posting_content |-> doc.job_posting_content]

ErrorResponse(code) ==
    [status |-> code, id |-> NoId, optimized_resume |-> <<>>, suggestions |-> <<>>,
     match_score |-> 0, job_posting_content |-> NoText]

NoResponse == ErrorResponse(0)

\* the document find_one gives back: the stored fields and the _id the store
\* assigned, which is an ObjectId
FoundDocument(oid) == [_id |-> [type |-> "ObjectId", n |-> oid], fields |-> store[oid]]

NoFound == [_id |-> [type |-> "none", n |-> 0], fields |-> NoDoc]

\* response_model=ResumeOptimization applied to what the handler returns:
\* `id: Optional[str] = Field(alias="_id")` accepts a str or None
ResponseModelAccepts(document) == document._id.type \in {"str", "none"}

NoOp == [op |-> "none", id |-> NoId, status |-> 0, queried |-> FALSE, found |-> FALSE,
         body |-> NoFound, listed |-> <<>>]

----------------------------------------------------------------------------
(* What each specification lets the collaborators and the clients do *)

\* scrape_job_posting alone: every behaviour of the fetchers and the cleanser
ScrapeEnv ==
    [static |-> StaticOutcomes, step |-> StepOutcomes, render |-> RenderOutcomes,
     cleanser |-> CleanserOutcomes, optimizer |-> OptimizerOutcomes,
     files |-> ResumeFiles, texts |-> ResumeTexts, capacity |-> 0]

\* one optimize request after another: every resume input and every
\* behaviour of the optimizer LLM, with a long static page, a rendered page
\* or a failed extraction
RequestEnv ==
    [static |-> {o \in StaticOutcomes : o.kind = "error" \/ o.len > StaticMinChars + 1},
     step |-> StepOutcomes,
     render |-> {o \in RenderOutcomes : o.kind = "error" \/ o.len = RenderedMinChars + 1},
     cleanser |-> {o \in CleanserOutcomes : o.kind = "invoke_error" \/ (o.kind = "reply" /\ o.len = 0)},
     optimizer |-> OptimizerOutcomes,
     files |-> ResumeFiles, texts |-> ResumeTexts, capacity |-> MaxRequests]

\* the HTTP surface with the store: optimize requests interleaved with
\* GET, DELETE and list
ApiEnv ==
    [static |-> {o \in StaticOutcomes : o.kind = "error" \/ o.len > StaticMinChars + 1},
     step |-> {o \in StepOutcomes : o.kind = "ok"},
     render |-> {o \in RenderOutcomes : o.kind = "error"},
     cleanser |-> {o \in CleanserOutcomes : o.kind = "invoke_error"},
     optimizer |-> {o \in OptimizerOutcomes :
                      \/ o.kind = "client_error"
                      \/ o.text \in {<<"{", "R", "S", "M8", "}">>, <<"{", "}">>}},
     files |-> {NoFile},
     texts |-> {t \in ResumeTexts : t.text \in {<<>>, <<" ", "a", " ", "\n", "b">>}},
     capacity |-> MaxRecords]

----------------------------------------------------------------------------
(* The handlers *)

ResetHandlerLocals ==
    /\ resume_content' = <<>>
    /\ optimization_result' = NoResult
    /\ llm_outcome' = NoOutcome

\* a request ends with an error response
Fails(code) ==
    /\ response' = ErrorResponse(code)
    /\ pc' = "responded"

\* a call scrape_job_posting(url) on its own
StartScrape ==
    /\ pc \in {"idle", "scrape_return"}
    /\ endpoint' = "scrape"
    /\ req' = [NoRequest EXCEPT !.job_url = JobUrl]
    /\ BeginScrape
    /\ UNCHANGED handlerVars
    /\ UNCHANGED storeVars

\* POST /optimize, l.368-387
ReceiveOptimize(env) ==
    /\ pc \in {"idle", "responded"}
    /\ next_oid <= env.capacity
    /\ endpoint' = "optimize"
    /\ \E f \in env.files, t \in env.texts :
        /\ req' = [job_url |-> JobUrl, resume_file |-> f, resume_text |-> t]
        /\ IF f.format = "none" /\ ~Truthy(t)
           THEN /\ Fails(400)
                /\ ResetScrapeLocals
           ELSE /\ response' = NoResponse
                /\ BeginScrape
    /\ ResetHandlerLocals
    /\ UNCHANGED storeVars

\* POST /optimize-json, l.433-437
ReceiveOptimizeJson(env) ==
    /\ pc \in {"idle", "responded"}
    /\ next_oid <= env.capacity
    /\ endpoint' = "optimize_json"
    /\ \E t \in env.texts :
        req' = [job_url |-> JobUrl, resume_file |-> NoFile, resume_text |-> t]
    /\ response' = NoResponse
    /\ BeginScrape
    /\ ResetHandlerLocals
    /\ UNCHANGED storeVars

\* l.391-399 of optimize_resume, l.439-445 of optimize_resume_json
ParseResume ==
    /\ pc = "scrape_return"
    /\ endpoint \in {"optimize", "optimize_json"}
    /\ LET p == IF endpoint = "optimize"
                THEN ParseUpload(req)
                ELSE IF ~Truthy(req.resume_text)
                     THEN [status |-> 400, value |-> <<>>]
                     ELSE [status |-> 200,
                           value |-> parse_text_resume(req.resume_text.text)]
       IN IF p.status # 200
          THEN /\ Fails(p.status)
               /\ UNCHANGED resume_content
          ELSE /\ resume_content' = p.value
               /\ pc' = "optimize_llm"
               /\ UNCHANGED response
    /\ UNCHANGED <<endpoint, req, optimization_result, llm_outcome>>
    /\ UNCHANGED scrapeVars
    /\ UNCHANGED storeVars

\* l.402 / l.446
OptimizeWithLLM(env) ==
    /\ pc = "optimize_llm"
    /\ \E o \in env.optimizer :
        /\ optimization_result' = optimize_resume_with_llm(cleansed_text, resume_content, o)
        /\ llm_outcome' = o
    /\ pc' = "persist"
    /\ UNCHANGED <<endpoint, req, resume_content, response>>
    /\ UNCHANGED scrapeVars
    /\ UNCHANGED storeVars

\* a handler that hands the document to insert_one before the model has
\* validated the values read from optimization_result
PersistBeforeValidation ==
    /\ pc = "persist"
    /\ LET b == BuildDocument(req.job_url, cleansed_text, raw_text, resume_content,
                              optimization_result, next_oid)
           d == IF b.status = 200 THEN b.doc ELSE [NoDoc EXCEPT !.created_at = next_oid]
       IN /\ store' = [o \in DOMAIN store \cup {next_oid} |->
                          IF o = next_oid THEN d ELSE store[o]]
          /\ next_oid' = next_oid + 1
          /\ IF b.status # 200
             THEN Fails(500)
             ELSE /\ response' = OkResponse(next_oid, b.doc)
                  /\ pc' = "responded"
    /\ UNCHANGED <<endpoint, req, resume_content, optimization_result, llm_outcome, lastOp>>
    /\ UNCHANGED scrapeVars

\* l.404-430 / l.448-474: build the document, insert_one, build the response
Persist ==
    /\ pc = "persist"
    /\ LET b == BuildDocument(req.job_url, cleansed_text, raw_text, resume_content,
                              optimization_result, next_oid)
       IN IF b.status # 200
          THEN /\ Fails(500)
               /\ UNCHANGED <<store, next_oid>>
          ELSE /\ store' = [o \in DOMAIN store \cup {next_oid} |->
                               IF o = next_oid THEN b.doc ELSE store[o]]
               /\ next_oid' = next_oid + 1
               /\ response' = OkResponse(next_oid, b.doc)
               /\ pc' = "responded"
    /\ UNCHANGED <<endpoint, req, resume_content, optimization_result, llm_outcome, lastOp>>
    /\ UNCHANGED scrapeVars

\* GET /api/optimizations/{optimization_id}, l.484-498
GetOptimization ==
    /\ \E idstr \in IdStrings :
        lastOp' =
            IF ~ObjectIdIsValid(idstr)
            THEN [NoOp EXCEPT !.op = "GET", !.id = idstr, !.status = 400]
            ELSE IF ObjectIdOf(idstr) \notin DOMAIN store
                 THEN [NoOp EXCEPT !.op = "GET", !.id = idstr, !.status = 404,
                                   !.queried = TRUE]
                 ELSE LET d == FoundDocument(ObjectIdOf(idstr)) IN
                      IF ResponseModelAccepts(d)
                      THEN [NoOp EXCEPT !.op = "GET", !.id = idstr, !.status = 200,
                                        !.queried = TRUE, !.found = TRUE, !.body = d]
                      ELSE [NoOp EXCEPT !.op = "GET", !.id = idstr, !.status = 500,
                                        !.queried = TRUE, !.found = TRUE]
    /\ UNCHANGED <<pc, endpoint, req, store, next_oid>>
    /\ UNCHANGED scrapeVars
    /\ UNCHANGED handlerVars

\* DELETE /api/optimizations/{optimization_id}, l.500-514
DeleteOptimization ==
    /\ \E idstr \in IdStrings :
        IF ~ObjectIdIsValid(idstr)
        THEN /\ lastOp' = [NoOp EXCEPT !.op = "DELETE", !.id = idstr, !.status = 400]
             /\ store' = store
        ELSE IF ObjectIdOf(idstr) \notin DOMAIN store
             THEN /\ lastOp' = [NoOp EXCEPT !.op = "DELETE", !.id = idstr,
                                            !.status = 404, !.queried = TRUE]
                  /\ store' = store
             ELSE /\ lastOp' = [NoOp EXCEPT !.op = "DELETE", !.id = idstr,
                                            !.status = 200, !.queried = TRUE,
                                            !.found = TRUE]
                  /\ store' = [o \in DOMAIN store \ {ObjectIdOf(idstr)} |-> store[o]]
    /\ UNCHANGED <<pc, endpoint, req, next_oid>>
    /\ UNCHANGED scrapeVars
    /\ UNCHANGED handlerVars

\* the ids of S by created_at, newest first
RECURSIVE NewestFirst(_)
NewestFirst(S) ==
    IF S = {} THEN <<>>
    ELSE LET o == CHOOSE x \in S : \A y \in S : store[y].created_at <= store[x].created_at
         IN <<o>> \o NewestFirst(S \ {o})

\* cursor.skip(skip).limit(limit) on a sorted result
Page(seq, skip, limit) ==
    SubSeq(seq, skip + 1, Min(Len(seq), skip + limit))

\* GET /api/optimizations, l.476-482
GetOptimizations ==
    /\ \E skip \in {0, 1}, limit \in {1, 10} :
        LET page == Page(NewestFirst(DOMAIN store), skip, limit)
            ok == \A i \in 1..Len(page) : ResponseModelAccepts(FoundDocument(page[i]))
        IN lastOp' = [NoOp EXCEPT !.op = "LIST", !.queried = TRUE,
                                  !.status = IF ok THEN 200 ELSE 500,
                                  !.listed = IF ok THEN page ELSE <<>>]
    /\ UNCHANGED <<pc, endpoint, req, store, next_oid>>
    /\ UNCHANGED scrapeVars
    /\ UNCHANGED handlerVars

----------------------------------------------------------------------------
(* Specifications *)

Init ==
    /\ pc = "idle"
    /\ endpoint = "none"
    /\ req = NoRequest
    /\ site = "none"
    /\ exc = NoExc
    /\ text = NoText
    /\ raw_text = NoText
    /\ cleansed_text = NoText
    /\ playwright = "stopped"
    /\ open_browsers = 0
    /\ pw_result = [raised |-> FALSE, exc |-> NoExc, text |-> NoText]
    /\ static_result = "none"
    /\ pw_calls = 0
    /\ pw_returns = <<>>
    /\ cleanser_calls = 0
    /\ resume_content = <<>>
    /\ optimization_result = NoResult
    /\ llm_outcome = NoOutcome
    /\ response = NoResponse
    /\ store = [o \in {} |-> NoDoc]
    /\ next_oid = 1
    /\ lastOp = NoOp

\* calls of scrape_job_posting
NextScrape ==
    \/ StartScrape
    \/ StaticFetch(ScrapeEnv)
    \/ PwLaunch(ScrapeEnv)
    \/ PwNewPage(ScrapeEnv)
    \/ PwRender(ScrapeEnv)
    \/ PwClose
    \/ Cleanse(ScrapeEnv)

SpecScrape == Init /\ [][NextScrape]_vars

\* optimize requests, one after another
NextRequest ==
    \/ ReceiveOptimize(RequestEnv)
    \/ ReceiveOptimizeJson(RequestEnv)
    \/ StaticFetch(RequestEnv)
    \/ PwLaunch(RequestEnv)
    \/ PwNewPage(RequestEnv)
    \/ PwRender(RequestEnv)
    \/ PwClose
    \/ Cleanse(RequestEnv)
    \/ ParseResume
    \/ OptimizeWithLLM(RequestEnv)
    \/ Persist

SpecRequest == Init /\ [][NextRequest]_vars

\* the HTTP surface
Next ==
    \/ ReceiveOptimize(ApiEnv)
    \/ ReceiveOptimizeJson(ApiEnv)
    \/ StaticFetch(ApiEnv)
    \/ PwLaunch(ApiEnv)
    \/ PwNewPage(ApiEnv)
    \/ PwRender(ApiEnv)
    \/ PwClose
    \/ Cleanse(ApiEnv)
    \/ ParseResume
    \/ OptimizeWithLLM(ApiEnv)
    \/ Persist
    \/ GetOptimization
    \/ DeleteOptimization
    \/ GetOptimizations

Spec == Init /\ [][Next]_vars

----------------------------------------------------------------------------
(* Properties of scrape_job_posting (specification SpecScrape) *)

\* the call has returned its pair
ScrapeReturned == pc = "scrape_return"

\* the returned pair is one of the two extraction-failure error strings
ReturnedErrorString ==
    /\ ScrapeReturned
    /\ cleansed_text.kind \in {"extract_error", "scrape_error_static",
                               "scrape_error_render", "scrape_error_cleanse"}

\* C1: once the static fetch of a call has given more than 500 characters,
\* scrape_with_playwright is not invoked in that call, at any point up to and
\* including the return, whether the cleanser succeeds or falls back.
C1_NoRenderAfterLongStatic ==
    static_result = "long" =>
        /\ pw_calls = 0
        /\ pc # "pw_launch"
        /\ ~InAttempt
        /\ open_browsers = 0

\* a call that returned after a long static page and a failed cleanser call
C1_Witness ==
    /\ ScrapeReturned
    /\ static_result = "long"
    /\ cleanser_calls = 1
    /\ cleansed_text = Truncate(raw_text, CleanseFallbackChars)
    /\ raw_text.len > CleanseFallbackChars

\* C2: when the static fetch gave at most 500 characters or raised, and the
\* call returns an extraction-failure error string, scrape_with_playwright
\* was attempted exactly once in that call.
C2_RenderedExactlyOnce ==
    (ReturnedErrorString /\ static_result \in {"short", "error"}) => pw_calls = 1

StaticInsufficient == static_result \in {"short", "error"}

\* an invocation of scrape_with_playwright that failed or gave at most 100
\* characters
RenderInsufficient(r) == r.raised \/ r.len <= RenderedMinChars

\* C12: when a call of scrape_job_posting has returned, its static attempt
\* was insufficient and the rendered attempt which followed it was
\* insufficient too, the returned raw_text and cleansed_text are the same
\* extraction-failure error string and the cleanser was not invoked in the
\* call.
C12_BothInsufficientGivesError ==
    (/\ ScrapeReturned
     /\ StaticInsufficient
     /\ pw_returns # <<>>
     /\ RenderInsufficient(pw_returns[1]))
        => /\ ReturnedErrorString
           /\ raw_text = cleansed_text
           /\ cleanser_calls = 0

----------------------------------------------------------------------------
(* Properties of the optimize handlers (specification SpecRequest) *)

ThreeFields == {"optimized_resume", "suggestions", "match_score"}

InUnitInterval(tenths) == 0 <= tenths /\ tenths <= 10

\* optimize_resume_with_llm has returned for the request in flight
OptimizerReturned == pc \in {"persist", "responded"} /\ llm_outcome.kind # "none"

\* the LLM service was unreachable for the request
LlmUnreachable == llm_outcome.kind \in {"client_error", "invoke_error"}

\* the resume text as the client sent it: the form field, the uploaded
\* text, or the text of the PDF's pages
InputResumeText(r) ==
    IF r.resume_file.format = "none" THEN r.resume_text.text
    ELSE IF r.resume_file.format = "utf8" THEN r.resume_file.pages[1]
    ELSE JoinPages(r.resume_file.pages)

\* the request's resume input is missing or cannot be parsed
BadResumeInput ==
    IF endpoint = "optimize"
    THEN \/ (req.resume_file.format = "none" /\ ~Truthy(req.resume_text))
         \/ ParseUpload(req).status # 200
    ELSE ~Truthy(req.resume_text)

\* C3: the match_score of every result optimize_resume_with_llm returns
\* (here: whenever the result carries a numeric one) is in [0,1], and so is
\* the match_score of every stored document and of every 200 response of
\* /optimize and /optimize-json.
C3_ScoreInUnitInterval ==
    /\ (/\ OptimizerReturned
        /\ optimization_result.type = "dict"
        /\ "match_score" \in optimization_result.keys
        /\ optimization_result.match_score.num)
          => InUnitInterval(optimization_result.match_score.tenths)
    /\ \A o \in DOMAIN store : InUnitInterval(store[o].match_score)
    /\ response.status = 200 => InUnitInterval(response.match_score)

\* C4 as stated: with the LLM unreachable the request answers 200 and
\* optimized_resume is the resume text exactly as the client sent it, with
\* score 0.5 and some suggestions.
C4_ResumeAsSent ==
    (pc = "responded" /\ LlmUnreachable) =>
        /\ response.status = 200
        /\ response.optimized_resume = InputResumeText(req)
        /\ response.match_score = FallbackScoreTenths
        /\ response.suggestions # <<>>

\* C4 amended: with the LLM unreachable the request answers 200 and
\* optimized_resume is the Resume Parser's output for the input (the stored
\* original_resume), not changed by the optimizer, with score 0.5 and some
\* suggestions.
C4_FallbackKeepsParsedResume ==
    (pc = "responded" /\ LlmUnreachable) =>
        /\ response.status = 200
        /\ response.optimized_resume = resume_content
        /\ IF endpoint = "optimize"
           THEN resume_content = ParseUpload(req).value
           ELSE resume_content = parse_text_resume(req.resume_text.text)
        /\ ObjectIdOf(response.id) \in DOMAIN store
        /\ store[ObjectIdOf(response.id)].original_resume = response.optimized_resume
        /\ store[ObjectIdOf(response.id)].optimized_resume = response.optimized_resume
        /\ response.match_score = FallbackScoreTenths
        /\ response.suggestions # <<>>

\* an answered request whose LLM call raised and whose resume text the
\* parser changed
C4_Witness ==
    /\ pc = "responded"
    /\ llm_outcome.kind = "invoke_error"
    /\ response.status = 200
    /\ response.optimized_resume = <<"a", " ", "b">>
    /\ req.resume_text.text = <<" ", "a", " ", "\n", "b">>

\* C5: whatever the LLM does, the result optimize_resume_with_llm returns is
\* a dict carrying optimized_resume, suggestions and match_score, so the
\* handler can read the three fields.
C5_ResultHasThreeFields ==
    OptimizerReturned =>
        /\ optimization_result.type = "dict"
        /\ ThreeFields \subseteq optimization_result.keys

\* C6: the pair scrape_job_posting returns has two non-empty strings, and
\* every stored document has a non-empty optimized_resume.
C6_NonEmptyTexts ==
    /\ (pc \in {"scrape_return", "optimize_llm", "persist"}) =>
          (cleansed_text.len > 0 /\ raw_text.len > 0)
    /\ \A o \in DOMAIN store : store[o].optimized_resume # <<>>

\* C7: a request whose resume input is present and parseable is answered
\* 200, whatever the fetchers and the LLM do: an error status comes only
\* with a missing or malformed resume input.
C7_OnlyBadInputFails ==
    (pc = "responded" /\ ~BadResumeInput) => response.status = 200

\* reference scanner: the index at which the braces opened from position i
\* on are balanced again (0 when they never are)
RECURSIVE BalancedEnd(_, _, _)
BalancedEnd(toks, i, depth) ==
    IF i > Len(toks) THEN 0
    ELSE LET d == IF toks[i] = "{" THEN depth + 1
                  ELSE IF toks[i] = "}" THEN depth - 1
                  ELSE depth
         IN IF d = 0 THEN i ELSE BalancedEnd(toks, i + 1, d)

\* reference scanner: the first balanced brace-delimited substring of a reply
FirstBalancedObject(toks) ==
    LET Opens == {i \in 1..Len(toks) : toks[i] = "{"}
        first == IF Opens = {} THEN 0 ELSE CHOOSE i \in Opens : \A j \in Opens : i <= j
        last == IF first = 0 THEN 0 ELSE BalancedEnd(toks, first, 0)
    IN IF last # 0
       THEN [found |-> TRUE, group |-> SubSeq(toks, first, last)]
       ELSE [found |-> FALSE, group |-> <<>>]

\* C13: for every reply whose first balanced brace-delimited substring is a
\* valid JSON object, whatever text precedes or follows it, the result
\* optimize_resume_with_llm returns is that object, parsed.
C13_ParsesFirstBalancedObject ==
    (/\ OptimizerReturned
     /\ llm_outcome.kind = "reply"
     /\ FirstBalancedObject(llm_outcome.text).found
     /\ json_loads(FirstBalancedObject(llm_outcome.text).group).ok)
        => optimization_result =
               json_loads(FirstBalancedObject(llm_outcome.text).group).value

----------------------------------------------------------------------------
(* Properties of GET / DELETE /api/optimizations/{id} (specification Spec) *)

\* what C9 says of one GET or DELETE step
C9_Step ==
    LET wellFormed == ObjectIdIsValid(lastOp'.id)
        existed == wellFormed /\ ObjectIdOf(lastOp'.id) \in DOMAIN store
    IN /\ ~wellFormed => (lastOp'.status = 400 /\ ~lastOp'.queried /\ store' = store)
       /\ (wellFormed /\ ~existed) => (lastOp'.status = 404 /\ store' = store)
       /\ existed => lastOp'.status = 200
       /\ (existed /\ lastOp'.op = "DELETE") =>
             ObjectIdOf(lastOp'.id) \notin DOMAIN store'

\* C9: every GET and DELETE by id answers 400 for a malformed id without
\* querying or changing the store, 404 for a well-formed id with no record,
\* leaving the store unchanged, and 200 for the id of an existing record,
\* which a DELETE removes (so that the next DELETE or GET of it answers 404).
C9_IdHandling == [][(GetOptimization \/ DeleteOptimization) => C9_Step]_vars

\* C10: a GET of the id a 200 optimize response carried, while the record
\* is in the store, answers 200 with the job_posting_content,
\* optimized_resume, suggestions and match_score of that response.
C10_RoundTrip ==
    (/\ lastOp.op = "GET"
     /\ lastOp.found
     /\ response.status = 200
     /\ lastOp.id = response.id)
        => /\ lastOp.status = 200
           /\ lastOp.body.fields.job_posting_content = response.job_posting_content
           /\ lastOp.body.fields.optimized_resume = response.optimized_resume
           /\ lastOp.body.fields.suggestions = response.suggestions
           /\ lastOp.body.fields.match_score = response.match_score

----------------------------------------------------------------------------
(* Properties of the store across requests (specification Spec) *)

\* the step answers an optimize request with a ResumeResponse
CompletesPipeline ==
    /\ pc # "responded"
    /\ pc' = "responded"
    /\ response'.status = 200

\* the step answers a request of any kind with an error status
EndsInError ==
    \/ (pc # "responded" /\ pc' = "responded" /\ response'.status # 200)
    \/ ((GetOptimization \/ DeleteOptimization \/ GetOptimizations)
           /\ lastOp'.status # 200)

\* what C11 says of one step
C11_Step ==
    LET added == DOMAIN store' \ DOMAIN store
        removed == DOMAIN store \ DOMAIN store'
    IN /\ CompletesPipeline =>
             /\ added = {ObjectIdOf(response'.id)}
             /\ removed = {}
       /\ added # {} => CompletesPipeline
       /\ EndsInError => store' = store
       /\ \A o \in DOMAIN store \cap DOMAIN store' : store'[o] = store[o]
       /\ removed # {} =>
             /\ DeleteOptimization
             /\ lastOp'.op = "DELETE"
             /\ ObjectIdIsValid(lastOp'.id)
             /\ removed = {ObjectIdOf(lastOp'.id)}
             /\ added = {}

\* C11: in every step of every sequence of optimize, list, get and delete
\* requests: a step that answers an optimize request 200 inserts exactly one
\* record (the one whose id the response carries), records are inserted by
\* such steps only (so a request that ends in an error response inserts
\* none), no step changes a field of a record that stays in the store, and a
\* record leaves the store only in a DELETE step for its id.
C11_StoreDiscipline == [][C11_Step]_vars

\* two requests completed, the second with the extraction failure string as
\* job posting and the no-credentials fallback of the optimizer, and the
\* record of the first deleted since
C11_Witness ==
    /\ pc = "responded"
    /\ response.status = 200
    /\ cleansed_text.kind \in {"scrape_error_static", "scrape_error_render"}
    /\ llm_outcome.kind = "client_error"
    /\ response.id = StrOfObjectId(2)
    /\ DOMAIN store = {2}
    /\ lastOp.op = "DELETE"
    /\ lastOp.status = 200
    /\ lastOp.id = StrOfObjectId(1)

====
